---- MODULE Spec2Model ----
(***************************************************************************)
(* Model of src/main.py: the voltage-report program.                       *)
(*                                                                         *)
(*   process_pdf          table ingestion (lines 17-41)                    *)
(*   calculate_statistics statistics engine (lines 43-61)                  *)
(*   main                 the event loop over the two windows (172-211)    *)
(*                                                                         *)
(* Text is a sequence of one-character strings, so that parsing and        *)
(* normalisation work character by character.  A voltage is an integer     *)
(* number of tenths of a volt (the code holds a float64; every cell of the *)
(* model has at most one fractional digit, so the fixed-point value is     *)
(* exact).  Statistics are exact fractions of tenths of a volt.            *)
(***************************************************************************)
EXTENDS Integers, Sequences, FiniteSets

VARIABLES pc, current_window, closed, event, file_path, disk, extracted,
          df, error, stats, histogram_data, popup, hist_file, report,
          hora_in, hora_out, hora_twice

vars == <<pc, current_window, closed, event, file_path, disk, extracted,
          df, error, stats, histogram_data, popup, hist_file, report,
          hora_in, hora_out, hora_twice>>

app_vars == <<pc, current_window, closed, event, file_path, disk, extracted,
              df, error, stats, histogram_data, popup, hist_file, report>>

norm_vars == <<hora_in, hora_out, hora_twice>>

----------------------------------------------------------------------------
(* Bounds of the model. *)

\* rows of the first extracted table
MaxRows == 3
\* columns of the first extracted table
MaxCols == 5
\* tables the extractor returns for one document
MaxTables == 2
\* length of the strings timestamp normalisation is applied to
MaxStrLen == 3

----------------------------------------------------------------------------
(* Text and numbers. *)

DigitChars == <<"0", "1", "2", "3", "4", "5", "6", "7", "8", "9">>

Digits == {DigitChars[i] : i \in 1..10}

DigitVal(c) == (CHOOSE i \in 1..10 : DigitChars[i] = c) - 1

\* a missing cell of the table: the float NaN the extractor leaves there
NaNCell == <<"NaN">>

\* a float64: NaN, or the value v in tenths of a volt
NaN == [nan |-> TRUE, v |-> 0]

Num(x) == [nan |-> FALSE, v |-> x]

RECURSIVE DecVal(_)
DecVal(s) == IF s = <<>> THEN 0
             ELSE DecVal(SubSeq(s, 1, Len(s) - 1)) * 10 + DigitVal(s[Len(s)])

\* pd.to_numeric(cell, errors='coerce') on one cell: [-]digits[.digits] with at
\* least one digit is a number, anything else (a missing cell too) is NaN.
ToNumeric(cell) ==
    IF cell = NaNCell THEN NaN
    ELSE LET neg  == Len(cell) > 0 /\ cell[1] = "-"
             body == IF neg THEN Tail(cell) ELSE cell
             dots == {i \in 1..Len(body) : body[i] = "."}
             dot  == IF dots = {} THEN Len(body) + 1 ELSE CHOOSE i \in dots : TRUE
             int  == SubSeq(body, 1, dot - 1)
             frac == SubSeq(body, dot + 1, Len(body))
             ok   == /\ Cardinality(dots) <= 1
                     /\ \A i \in 1..Len(body) : body[i] \in Digits \cup {"."}
                     /\ Len(int) + Len(frac) >= 1
             mag  == DecVal(int) * 10
                     + CASE Len(frac) = 0 -> 0
                         [] Len(frac) = 1 -> DigitVal(frac[1])
         IN IF ~ok THEN NaN
            ELSE Num(IF neg THEN -mag ELSE mag)

\* .astype(str) on one cell of the Hora column: NaN becomes the text "nan"
AsStr(cell) == IF cell = NaNCell THEN <<"n", "a", "n">> ELSE cell

\* faulty variant: the matched characters are removed instead of replaced
ReplaceNonTimeRemoving(s) == SelectSeq(s, LAMBDA c : c \in Digits \cup {":"})

\* .str.replace(r'[^0-9:]', ':', regex=True) on one string
ReplaceNonTime(s) ==
    [i \in 1..Len(s) |-> IF s[i] \in Digits \cup {":"} THEN s[i] ELSE ":"]

GCD(a, b) ==
    LET RECURSIVE G(_, _)
        G(x, y) == IF y = 0 THEN x ELSE G(y, x % y)
    IN G(IF a < 0 THEN -a ELSE a, IF b < 0 THEN -b ELSE b)

Abs(x) == IF x < 0 THEN -x ELSE x

\* the fraction n/d in lowest terms, d > 0
Rat(n, d) ==
    LET g == GCD(n, d)
        s == IF d < 0 THEN -1 ELSE 1
    IN [nan |-> FALSE, num |-> s * (n \div g), den |-> s * (d \div g)]

RatNaN == [nan |-> TRUE, num |-> 0, den |-> 1]

\* the square root of the fraction x, kept as (sign, square): neg says the
\* value is the negative root
Root(x, neg) == [nan |-> x.nan, neg |-> neg /\ ~x.nan /\ x.num # 0, sq |-> x]

----------------------------------------------------------------------------
(* Optional values: None, or a value.  A local variable of main that has   *)
(* not been assigned yet is None too.                                       *)

None == <<>>

Some(x) == <<x>>

\* Python truth of an error message: None and the empty string are false
Truthy(e) == e # None /\ e[1] # ""

----------------------------------------------------------------------------
(* Series helpers: a Series is a sequence of numbers. *)

RECURSIVE SumSeq(_)
SumSeq(s) == IF s = <<>> THEN 0 ELSE s[1] + SumSeq(Tail(s))

RECURSIVE SortSeq(_)
SortSeq(s) ==
    IF s = <<>> THEN <<>>
    ELSE LET m == CHOOSE i \in 1..Len(s) : \A j \in 1..Len(s) : s[i] <= s[j]
         IN <<s[m]>> \o SortSeq(SubSeq(s, 1, m - 1) \o SubSeq(s, m + 1, Len(s)))

Values(s) == {s[i] : i \in 1..Len(s)}

Count(s, x) == Cardinality({i \in 1..Len(s) : s[i] = x})

RECURSIVE SetToSortedSeq(_)
SetToSortedSeq(S) ==
    IF S = {} THEN <<>>
    ELSE LET m == CHOOSE x \in S : \A y \in S : x <= y
         IN <<m>> \o SetToSortedSeq(S \ {m})

\* Series.mean()
Mean(s) == Rat(SumSeq(s), Len(s))

\* Series.median(): the middle value, or the mean of the two middle values
Median(s) ==
    LET o == SortSeq(s)
        n == Len(s)
    IN IF n % 2 = 1 THEN Rat(o[(n + 1) \div 2], 1)
       ELSE Rat(o[n \div 2] + o[n \div 2 + 1], 2)

\* faulty variant: the first of the most frequent values only
ModeFirstOnly(s) ==
    LET top == CHOOSE c \in {Count(s, x) : x \in Values(s)} :
                   \A x \in Values(s) : Count(s, x) <= c
        all == SetToSortedSeq({x \in Values(s) : Count(s, x) = top})
    IN <<all[1]>>

\* Series.mode().tolist(): every value of the highest count, ascending
Mode(s) ==
    LET top == CHOOSE c \in {Count(s, x) : x \in Values(s)} :
                   \A x \in Values(s) : Count(s, x) <= c
    IN SetToSortedSeq({x \in Values(s) : Count(s, x) = top})

\* faulty variant: population variance (ddof = 0), defined for one reading too
VarPopulation(s) ==
    LET n == Len(s)
        S == SumSeq(s)
    IN Rat(SumSeq([i \in 1..n |-> (n * s[i] - S) * (n * s[i] - S)]), n * n * n)

\* Series.var(): sample variance (ddof = 1); NaN for a single reading
Var(s) ==
    LET n == Len(s)
        S == SumSeq(s)
    IN IF n - 1 <= 0 THEN RatNaN
       ELSE Rat(SumSeq([i \in 1..n |-> (n * s[i] - S) * (n * s[i] - S)]),
                n * n * (n - 1))

\* Series.std(): the square root of Series.var()
Std(s) == Root(Var(s), FALSE)

\* Series.max() - Series.min()
Range(s) == LET o == SortSeq(s) IN o[Len(s)] - o[1]

\* Series.quantile(k/4): linear interpolation between order statistics
Quantile(s, k) ==
    LET o   == SortSeq(s)
        pos == (Len(s) - 1) * k
        lo  == pos \div 4 + 1
        r   == pos % 4
        hi  == IF r = 0 THEN lo ELSE lo + 1
    IN Rat(4 * o[lo] + r * (o[hi] - o[lo]), 4)

\* (df['Voltaje'] - mean).abs().mean()
MeanAbsDev(s) ==
    LET n == Len(s)
        S == SumSeq(s)
    IN Rat(SumSeq([i \in 1..n |-> Abs(n * s[i] - S)]), n * n)

\* std_dev / mean if mean != 0 else 0
CoefficientVariation(s) ==
    LET m == Mean(s)
        v == Var(s)
    IN IF m.num # 0
       THEN Root(IF v.nan THEN RatNaN ELSE Rat(v.num * m.den * m.den, v.den * m.num * m.num),
                 m.num < 0)
       ELSE Root(Rat(0, 1), FALSE)

\* the nominal voltage 127.00, in tenths of a volt
real_voltage == 1270

\* faulty variant: the signed error
AbsErrorSigned(v) == v - real_voltage

\* abs(df['Voltaje'] - real_voltage), one row
AbsError(v) == Abs(v - real_voltage)

\* (df['Error Absoluto'] / real_voltage) * 100, one row
RelError(e) == Rat(e * 100, real_voltage)

Voltajes(rows) == [i \in 1..Len(rows) |-> rows[i].Voltaje]

\* calculate_statistics(df): the statistics and the frame with its two new
\* columns; df is None only through the caller's slip, and then
\* df['Voltaje'] raises TypeError
CalculateStatistics(d) ==
    IF d = None THEN [raised |-> TRUE, stats |-> None, df |-> None]
    ELSE
    LET rows == d[1]
        s    == Voltajes(rows)
        q1   == Quantile(s, 1)
        q3   == Quantile(s, 3)
        aug  == [i \in 1..Len(rows) |->
                    [index |-> rows[i].index, Hora |-> rows[i].Hora,
                     Voltaje |-> rows[i].Voltaje,
                     Error_Absoluto |-> AbsError(rows[i].Voltaje),
                     Error_Relativo |-> RelError(AbsError(rows[i].Voltaje))]]
    IN [raised |-> FALSE,
        stats |-> Some([mean |-> Mean(s), median |-> Median(s), mode |-> Mode(s),
                        std_dev |-> Std(s), variance |-> Var(s), range |-> Range(s),
                        coefficient_variation |-> CoefficientVariation(s),
                        semi_interquartil |-> Rat(q3.num * q1.den - q1.num * q3.den,
                                                  2 * q1.den * q3.den),
                        mad |-> MeanAbsDev(s)]),
        df |-> Some(aug)]

----------------------------------------------------------------------------
(* Table ingestion.  A table is [columns |-> n, rows |-> <<row, ...>>], a  *)
(* row a tuple of n cells.  What tabula.read_pdf does with a document is   *)
(* [raises |-> TRUE, msg |-> m], or [raises |-> FALSE, tables |-> <<...>>]. *)

Raises(m) == [raises |-> TRUE, msg |-> m, tables |-> <<>>]

Returns(ts) == [raises |-> FALSE, msg |-> "", tables |-> ts]

\* faulty variant: a table of four or more columns is read as the 4-column layout
LayoutAtLeast(n) ==
    IF n >= 4 THEN [known |-> TRUE, Hora |-> 2, Voltaje |-> 3]
    ELSE IF n = 3 THEN [known |-> TRUE, Hora |-> 1, Voltaje |-> 2]
    ELSE [known |-> FALSE, Hora |-> 0, Voltaje |-> 0]

\* the renaming of the columns by their count: where Hora and Voltaje are
Layout(n) ==
    IF n = 4 THEN [known |-> TRUE, Hora |-> 2, Voltaje |-> 3]
    ELSE IF n = 3 THEN [known |-> TRUE, Hora |-> 1, Voltaje |-> 2]
    ELSE [known |-> FALSE, Hora |-> 0, Voltaje |-> 0]

\* df['Voltaje'] = pd.to_numeric(df['Voltaje'], errors='coerce'); a row keeps
\* its index label, its position in the table.  The columns no later code
\* reads (Lectura, Ordenado_ascendente) are left out of the frame.
NumericFrame(t, lay) ==
    [i \in 1..Len(t.rows) |->
        [index |-> i, Hora |-> t.rows[i][lay.Hora],
         Voltaje |-> ToNumeric(t.rows[i][lay.Voltaje])]]

\* faulty variant: NaN voltages are filled with 0 instead of dropped
DropNaFilling(f) ==
    [i \in 1..Len(f) |->
        [index |-> f[i].index, Hora |-> f[i].Hora,
         Voltaje |-> IF f[i].Voltaje.nan THEN Num(0) ELSE f[i].Voltaje]]

\* faulty variant: dropna() without subset, a NaN in any column drops the row
DropNaAnyColumn(f) ==
    SelectSeq(f, LAMBDA r : ~r.Voltaje.nan /\ r.Hora # NaNCell)

\* df.dropna(subset=['Voltaje'])
DropNa(f) == SelectSeq(f, LAMBDA r : ~r.Voltaje.nan)

\* the Hora column as text, every character but digits and colons replaced
NormalizeHora(f) ==
    [i \in 1..Len(f) |->
        [index |-> f[i].index, Hora |-> ReplaceNonTime(AsStr(f[i].Hora)),
         Voltaje |-> f[i].Voltaje.v]]

\* tables[0].copy()
FirstTable(ts) == ts[1]

\* process_pdf(file_path), x what the extractor does with the document:
\* the pair (df, error)
ProcessPdf(x) ==
    IF x.raises THEN [df |-> None, error |-> Some(x.msg)]
    ELSE IF x.tables = <<>> THEN [df |-> None, error |-> Some("No tables found in PDF")]
    ELSE LET t   == FirstTable(x.tables)
             lay == Layout(t.columns)
         IN IF ~lay.known
            THEN [df |-> None, error |-> Some("Unexpected table structure")]
            ELSE LET out == NormalizeHora(DropNa(NumericFrame(t, lay)))
                 IN IF out = <<>>
                    THEN [df |-> None, error |-> Some("No valid voltage data found")]
                    ELSE [df |-> Some(out), error |-> None]

\* create_histogram(data): the PNG bytes, a function of the data alone
CreateHistogram(data) == [png_of |-> data]

----------------------------------------------------------------------------
(* The documents the model reads. *)

Str(a, b, c, d, e) == <<a, b, c, d, e>>

\* (Hora cell, Voltaje cell) of the rows a table is built from
SampleRows ==
    { <<Str("0", "8", ":", "1", "5"), <<"1", "2", "5">> >>,
      <<Str("0", "8", ".", "1", "6"), <<"1", "3", "0">> >>,
      <<NaNCell,                      Str("1", "2", "7", ".", "1")>>,
      <<<<"8", "h", "1", "7">>,       <<"a", "b", "c">> >>,
      <<Str("0", "8", ":", "1", "8"), NaNCell>>,
      <<Str("0", "8", ":", "1", "9"), <<"1", "2", "5", ".">> >> }

Filler == <<"x">>

\* a row of n cells holding the pair p where a 3- or 4-column layout reads it
RowOf(n, p) ==
    [c \in 1..n |-> IF n = 4 THEN (IF c = 2 THEN p[1] ELSE IF c = 3 THEN p[2] ELSE Filler)
                    ELSE (IF c = 1 THEN p[1] ELSE IF c = 2 THEN p[2] ELSE Filler)]

SeqsUpTo(S, k) == UNION {[1..m -> S] : m \in 0..k}

FirstTables ==
    UNION { {[columns |-> n, rows |-> rs] :
                 rs \in SeqsUpTo({RowOf(n, p) : p \in SampleRows}, MaxRows)} :
            n \in 0..MaxCols }

\* a later table of the document: a well-formed 3-column table of one reading
OtherTable ==
    [columns |-> 3,
     rows |-> << <<Str("0", "9", ":", "0", "0"), <<"1", "3", "1">>, Filler>> >>]

Messages == {"", "boom"}

Outcomes ==
    {Raises(m) : m \in Messages}
    \cup {Returns(<<>>)}
    \cup {Returns(<<t>> \o more) :
              t \in FirstTables, more \in SeqsUpTo({OtherTable}, MaxTables - 1)}

\* the documents of the disk: a.pdf is any document of Outcomes, b.pdf a file
\* the extractor cannot read
Paths == {"a.pdf", "b.pdf"}

NormAlphabet == {"0", "8", ":", ".", "h"}

----------------------------------------------------------------------------
(* The event loop of main. *)

WIN_CLOSED == "WIN_CLOSED"

NoEvent == "(none)"

\* the events a window delivers: its buttons, and the closing of the window
\* (main_window lines 90-95, results_window lines 155-160)
Buttons(w) == IF w = "main" THEN {"Procesar", "Salir"}
              ELSE {"Generar Reporte", "Cerrar"}

TempDir == "tmp"

\* one pass of `while True` for the event e, path being values['-FILE-']
LoopBody(e, path) ==
    /\ event' = e
    /\ IF e \in {WIN_CLOSED, "Cerrar", "Exit"}
       THEN \* break, then current_window.close()
            /\ pc' = "done"
            /\ closed' = closed \cup {current_window}
            /\ UNCHANGED <<current_window, file_path, extracted, df, error, stats,
                           histogram_data, popup, hist_file, report>>
       ELSE IF e = "Procesar"
       THEN /\ file_path' = path
            /\ IF path = ""
               THEN /\ popup' = Some(<<"popup_error", "Seleccione un archivo PDF primero">>)
                    /\ UNCHANGED <<pc, current_window, closed, extracted, df, error,
                                   stats, histogram_data, hist_file, report>>
               ELSE LET r == ProcessPdf(disk[path])
                    IN /\ extracted' = Some(disk[path])
                       /\ error' = r.error
                       /\ IF Truthy(r.error)
                          THEN /\ df' = r.df
                               /\ popup' = Some(<<"popup_error", "Error procesando PDF:",
                                                  r.error[1]>>)
                               /\ UNCHANGED <<pc, current_window, closed, stats,
                                              histogram_data, hist_file, report>>
                          ELSE LET c == CalculateStatistics(r.df)
                               IN IF c.raised
                                  THEN \* TypeError leaves main
                                       /\ pc' = "crashed"
                                       /\ df' = r.df
                                       /\ UNCHANGED <<current_window, closed, stats,
                                                      histogram_data, popup, hist_file,
                                                      report>>
                                  ELSE /\ stats' = c.stats
                                       /\ df' = c.df
                                       /\ histogram_data' =
                                              Some(CreateHistogram(Voltajes(c.df[1])))
                                       /\ closed' = closed \cup {current_window}
                                       /\ current_window' = "results"
                                       /\ UNCHANGED <<pc, popup, hist_file, report>>
       ELSE IF e = "Generar Reporte PDF"
       THEN \* the image is written, create_report called, then the popup and
            \* os.startfile on the report path
            /\ hist_file' = histogram_data
            /\ report' = Some([stats |-> stats,
                               histogram_path |-> <<TempDir, "histogram.png">>,
                               output_path |-> <<TempDir, "reporte_voltaje.pdf">>])
            /\ popup' = Some(<<"popup", "Reporte generado exitosamente:",
                               <<TempDir, "reporte_voltaje.pdf">> >>)
            /\ UNCHANGED <<pc, current_window, closed, file_path, extracted, df, error,
                           stats, histogram_data>>
       ELSE UNCHANGED <<pc, current_window, closed, file_path, extracted, df, error,
                        stats, histogram_data, popup, hist_file, report>>
    /\ UNCHANGED <<disk, norm_vars>>

Reading == pc = "loop"

ClickProcesar ==
    /\ Reading /\ "Procesar" \in Buttons(current_window)
    /\ \E path \in Paths \cup {""} : LoopBody("Procesar", path)

ClickSalir ==
    /\ Reading /\ "Salir" \in Buttons(current_window)
    /\ LoopBody("Salir", file_path)

ClickGenerarReporte ==
    /\ Reading /\ "Generar Reporte" \in Buttons(current_window)
    /\ LoopBody("Generar Reporte", file_path)

ClickCerrar ==
    /\ Reading /\ "Cerrar" \in Buttons(current_window)
    /\ LoopBody("Cerrar", file_path)

CloseWindow ==
    /\ Reading
    /\ LoopBody(WIN_CLOSED, file_path)

InitApp ==
    /\ pc = "loop"
    /\ current_window = "main"
    /\ closed = {}
    /\ event = NoEvent
    /\ file_path = ""
    /\ extracted = None
    /\ df = None
    /\ error = None
    /\ stats = None
    /\ histogram_data = None
    /\ popup = None
    /\ hist_file = None
    /\ report = None

Init ==
    /\ InitApp
    /\ \E o \in Outcomes :
           disk = [p \in Paths |-> IF p = "a.pdf" THEN o ELSE Raises("boom")]
    /\ hora_in = <<>>
    /\ hora_out = None
    /\ hora_twice = None

Next ==
    \/ ClickProcesar
    \/ ClickSalir
    \/ ClickGenerarReporte
    \/ ClickCerrar
    \/ CloseWindow

Spec == Init /\ [][Next]_vars

----------------------------------------------------------------------------
(* Timestamp normalisation on its own: every string over NormAlphabet of   *)
(* at most MaxStrLen characters, normalised once and then once more.       *)

NormalizeOnce ==
    /\ hora_out = None
    /\ hora_out' = Some(ReplaceNonTime(hora_in))
    /\ UNCHANGED <<hora_in, hora_twice, app_vars>>

NormalizeAgain ==
    /\ hora_out # None
    /\ hora_twice = None
    /\ hora_twice' = Some(ReplaceNonTime(hora_out[1]))
    /\ UNCHANGED <<hora_in, hora_out, app_vars>>

InitNorm ==
    /\ InitApp
    /\ disk = [p \in Paths |-> Returns(<<>>)]
    /\ hora_in \in SeqsUpTo(NormAlphabet, MaxStrLen)
    /\ hora_out = None
    /\ hora_twice = None

NextNorm == NormalizeOnce \/ NormalizeAgain

SpecNorm == InitNorm /\ [][NextNorm]_vars

----------------------------------------------------------------------------
(* Properties.  `extracted` is what the extractor did on the last run of   *)
(* process_pdf; df, error and stats are what main holds after it.          *)

Ingested == extracted # None

\* the first table of the last extraction, when there is one
HasTable == Ingested /\ ~extracted[1].raises /\ extracted[1].tables # <<>>

Table1 == extracted[1].tables[1]

\* the Voltaje cell of row k of the first table, by the layout's position
VoltCell(k) == Table1.rows[k][Table1.columns - 1]

NumericRows == {k \in 1..Len(Table1.rows) : ~ToNumeric(VoltCell(k)).nan}

\* an ingestion failure: the extractor raised, or returned no table, or the
\* first table has an unrecognised column count or no numeric voltage
IngestionFailure ==
    /\ Ingested
    /\ \/ extracted[1].raises
       \/ extracted[1].tables = <<>>
       \/ Table1.columns \notin {3, 4}
       \/ NumericRows = {}

\* C1: every ingestion failure, whatever its message, is a (None, error) pair
\* that main handles as a failure: it stays reading events on the
\* file-selection window, computes no statistics and raises nothing.
C1_FailureHandled ==
    IngestionFailure =>
        /\ df = None /\ error # None
        /\ pc # "crashed"
        /\ current_window = "main"
        /\ stats = None /\ histogram_data = None

\* C2: a non-empty list of tables whose first table has neither 3 nor 4
\* columns gives (None, "Unexpected table structure"), whatever the rows and
\* the other tables hold.
C2_UnexpectedStructure ==
    (HasTable /\ Table1.columns \notin {3, 4}) =>
        /\ df = None
        /\ error = Some("Unexpected table structure")

C2_Witness ==
    /\ HasTable /\ Table1.columns = 5
    /\ Len(extracted[1].tables) >= 2
    /\ Len(Table1.rows) >= 2
    /\ \E k \in 1..Len(Table1.rows) : ~ToNumeric(Table1.rows[k][2]).nan
    /\ error = Some("Unexpected table structure")

\* C3: a first table of 3 or 4 columns with no numeric voltage cell (no row
\* at all included) gives (None, "No valid voltage data found"), and a frame
\* that process_pdf returns is never empty.
C3_NoValidData ==
    /\ (HasTable /\ Table1.columns \in {3, 4} /\ NumericRows = {}) =>
           /\ df = None
           /\ error = Some("No valid voltage data found")
    /\ (Ingested /\ error = None) => (df # None /\ Len(df[1]) >= 1)

C3_Witness ==
    /\ HasTable /\ Table1.columns \in {3, 4}
    /\ Len(Table1.rows) >= 2
    /\ NumericRows = {}
    /\ error = Some("No valid voltage data found")

\* C4: on success the frame holds exactly the rows of the first table whose
\* voltage cell is a number, each once, with that number as its voltage, in
\* the table's order.
C4_SurvivingRows ==
    (Ingested /\ error = None /\ df # None) =>
        LET rows == df[1] IN
        /\ \A i, j \in 1..Len(rows) : i < j => rows[i].index < rows[j].index
        /\ {rows[i].index : i \in 1..Len(rows)} = NumericRows
        /\ \A i \in 1..Len(rows) :
               ToNumeric(VoltCell(rows[i].index)) = Num(rows[i].Voltaje)

C4_Witness ==
    /\ Ingested /\ error = None /\ df # None
    /\ Len(extracted[1].tables) >= 2
    /\ Len(df[1]) >= 2
    /\ \E k \in 1..Len(Table1.rows) :
           /\ k \notin NumericRows
           /\ \E i, j \in 1..Len(df[1]) : df[1][i].index < k /\ k < df[1][j].index

\* C5: timestamp normalisation keeps the length, leaves only digits and
\* colons, and applied to its own output changes nothing.
C5_NormalizationIdempotent ==
    /\ hora_out # None =>
           /\ Len(hora_out[1]) = Len(hora_in)
           /\ \A i \in 1..Len(hora_out[1]) :
                  hora_out[1][i] \in {"0", "1", "2", "3", "4", "5", "6", "7", "8", "9", ":"}
    /\ hora_twice # None => hora_twice[1] = hora_out[1]

C5_Witness ==
    /\ hora_twice # None
    /\ Len(hora_in) >= 2
    /\ hora_in[1] = "8" /\ hora_in[2] = "h"
    /\ hora_out[1] # hora_in

Computed == stats # None /\ df # None

Volts == [i \in 1..Len(df[1]) |-> df[1][i].Voltaje]

AllEqual == \A i, j \in 1..Len(Volts) : Volts[i] = Volts[j]

IsZero(x) == ~x.nan /\ x.num = 0

\* C6 as stated: all voltages equal to x, for any n >= 1, gives std_dev = 0,
\* variance = 0, mean absolute deviation = 0 and mode = [x].
C6_AllEqualOriginal ==
    (Computed /\ AllEqual) =>
        /\ IsZero(stats[1].std_dev.sq) /\ IsZero(stats[1].variance)
        /\ IsZero(stats[1].mad)
        /\ stats[1].mode = <<Volts[1]>>

\* C6 as amended: all voltages equal to x gives mean absolute deviation = 0
\* and mode = [x] for any n >= 1, std_dev = 0 and variance = 0 for n >= 2,
\* and std_dev and variance NaN for n = 1.
C6_AllEqual ==
    (Computed /\ AllEqual) =>
        /\ IsZero(stats[1].mad)
        /\ stats[1].mode = <<Volts[1]>>
        /\ Len(Volts) >= 2 => (IsZero(stats[1].std_dev.sq) /\ IsZero(stats[1].variance))
        /\ Len(Volts) = 1 => (stats[1].std_dev.nan /\ stats[1].variance.nan)

C6_Witness ==
    /\ Computed /\ AllEqual
    /\ Len(Volts) >= 3
    /\ IsZero(stats[1].variance)

\* C7: the mode is the list of exactly the voltage values whose count is the
\* highest count, each once; with all voltages distinct, every one of them.
C7_Mode ==
    Computed =>
        LET m == stats[1].mode IN
        /\ {m[i] : i \in 1..Len(m)} =
               {x \in Values(Volts) : \A y \in Values(Volts) : Count(Volts, y) <= Count(Volts, x)}
        /\ \A i, j \in 1..Len(m) : i # j => m[i] # m[j]

C7_Witness ==
    /\ Computed
    /\ Len(Volts) >= 3
    /\ Len(stats[1].mode) = Len(Volts)

RatAdd(a, b) == Rat(a.num * b.den + b.num * a.den, a.den * b.den)

RECURSIVE RatSum(_)
RatSum(s) == IF s = <<>> THEN Rat(0, 1) ELSE RatAdd(s[1], RatSum(Tail(s)))

\* C8: calculate_statistics returns the rows process_pdf gave it, in order,
\* each with absolute error |voltage - 127| and relative error
\* absolute error / 127 * 100 of its own voltage: both are >= 0, and the
\* relative errors sum to the sum of the absolute errors / 127 * 100.
C8_RowErrors ==
    Computed =>
        LET before == ProcessPdf(extracted[1]).df[1]
            rows   == df[1]
        IN /\ Len(rows) = Len(before)
           /\ \A i \in 1..Len(rows) :
                  /\ rows[i].index = before[i].index
                  /\ rows[i].Hora = before[i].Hora
                  /\ rows[i].Voltaje = before[i].Voltaje
                  /\ rows[i].Error_Absoluto >= 0
                  /\ \/ rows[i].Error_Absoluto = rows[i].Voltaje - 1270
                     \/ rows[i].Error_Absoluto = 1270 - rows[i].Voltaje
                  /\ ~rows[i].Error_Relativo.nan
                  /\ rows[i].Error_Relativo.num >= 0
                  /\ rows[i].Error_Relativo.num * 1270
                         = rows[i].Error_Absoluto * 100 * rows[i].Error_Relativo.den
           /\ RatSum([i \in 1..Len(rows) |-> rows[i].Error_Relativo])
                  = Rat(SumSeq([i \in 1..Len(rows) |-> rows[i].Error_Absoluto]) * 100, 1270)

\* voltages [125, 130] give absolute errors [2, 3]
C8_Witness ==
    /\ Computed
    /\ Volts = <<1250, 1300>>
    /\ [i \in 1..2 |-> df[1][i].Error_Absoluto] = <<20, 30>>

\* C9: when the results window delivers its report button, main writes the
\* chart image to the temporary directory and calls the report writer with
\* the statistics, the image path and the report path.
C9_ReportGenerated ==
    (event = "Generar Reporte" /\ pc = "loop") =>
        /\ hist_file # None /\ hist_file = histogram_data
        /\ report = Some([stats |-> stats,
                          histogram_path |-> <<TempDir, "histogram.png">>,
                          output_path |-> <<TempDir, "reporte_voltaje.pdf">>])

\* C10: the loop ends exactly on window-closed, 'Cerrar' and 'Exit'; any
\* other event leaves it reading events on the same window, but for the one
\* change from file selection to results on a 'Procesar' without error; the
\* results window is never left and ingestion never runs again under it.
C10_LoopEndsOnClose ==
    [][/\ (pc = "loop" /\ event' \in {WIN_CLOSED, "Cerrar", "Exit"}) => pc' = "done"
       /\ (pc = "loop" /\ event' \notin {WIN_CLOSED, "Cerrar", "Exit"}) =>
              /\ pc' = "loop"
              /\ \/ current_window' = current_window
                 \/ /\ current_window = "main" /\ current_window' = "results"
                    /\ event' = "Procesar" /\ error' = None
       /\ current_window = "results" =>
              /\ current_window' = "results"
              /\ extracted' = extracted /\ df' = df /\ stats' = stats]_vars

====
